---- MODULE Spec2Model ----
(***************************************************************************)
(* Model of dso-device-serial-number-masker (src/main.py).                 *)
(*                                                                         *)
(* A text is a sequence of one-character strings; a file is a sequence of  *)
(* bytes (0..255).  A regular expression is a sequence of one-character    *)
(* strings, compiled by Compile and matched by a greedy backtracking       *)
(* matcher, for the fragment of Python's re that the default patterns use: *)
(* literals, ".", character sets with ranges, and the greedy repeats       *)
(* * + ? {m} {m,n}.                                                        *)
(***************************************************************************)
EXTENDS Integers, Sequences, FiniteSets, TLC

(***************************************************************************)
(* Characters.  Printable holds the ASCII characters 32..126 in code       *)
(* order, with the double quote, the backslash and the backquote written   *)
(* by their code points, as the characters above 126 are.                  *)
(***************************************************************************)
Printable ==
  << " ", "!", "U+0022", "#", "$", "%", "&", "'", "(", ")", "*", "+", ",", "-", ".", "/",
     "0", "1", "2", "3", "4", "5", "6", "7", "8", "9", ":", ";", "<", "=", ">", "?",
     "@", "A", "B", "C", "D", "E", "F", "G", "H", "I", "J", "K", "L", "M", "N", "O",
     "P", "Q", "R", "S", "T", "U", "V", "W", "X", "Y", "Z", "[", "U+005C", "]", "^", "_",
     "U+0060", "a", "b", "c", "d", "e", "f", "g", "h", "i", "j", "k", "l", "m", "n", "o",
     "p", "q", "r", "s", "t", "u", "v", "w", "x", "y", "z", "{", "|", "}", "~" >>

\* The characters above 126 that the model uses, with their code points.
High == { <<169, "U+00A9">>, <<195, "U+00C3">>, <<233, "U+00E9">> }

\* The code point of each character of the model.
CodePoint ==
  [c \in { Printable[i] : i \in 1..Len(Printable) } \cup { h[2] : h \in High } |->
     IF \E h \in High : h[2] = c THEN (CHOOSE h \in High : h[2] = c)[1]
     ELSE 31 + (CHOOSE i \in 1..Len(Printable) : Printable[i] = c)]

\* ord(c)
Ord(c) == CodePoint[c]

\* chr(n) for the code points the model uses.
Chr(n) ==
  IF n > 126 THEN (CHOOSE h \in High : h[1] = n)[2] ELSE Printable[n - 31]

\* Faulty variant: string.ascii_lowercase + string.digits.
characters_lowercase ==
  << "a", "b", "c", "d", "e", "f", "g", "h", "i", "j", "k", "l", "m",
     "n", "o", "p", "q", "r", "s", "t", "u", "v", "w", "x", "y", "z",
     "0", "1", "2", "3", "4", "5", "6", "7", "8", "9" >>

\* string.ascii_uppercase + string.digits
characters ==
  << "A", "B", "C", "D", "E", "F", "G", "H", "I", "J", "K", "L", "M",
     "N", "O", "P", "Q", "R", "S", "T", "U", "V", "W", "X", "Y", "Z",
     "0", "1", "2", "3", "4", "5", "6", "7", "8", "9" >>

Range(s) == { s[i] : i \in 1..Len(s) }

(***************************************************************************)
(* Bounds of the model.                                                    *)
(***************************************************************************)
\* random.choice is drawn from a family of streams: the i-th character of a
\* token is characters[(seed + i * stride) % 36]; seed in 0..MaxSeed and
\* stride in 0..MaxStride.
MaxSeed == 1
MaxStride == 1
\* Longest exhaustively enumerated input text.
MaxLen == 2
\* Most bytes a failed write leaves in the output file.
MaxPartial == 1

(***************************************************************************)
(* Compilation of a pattern (re.sub compiles its pattern argument).        *)
(* A compiled pattern is a sequence of items [ranges, min, max, rep]: one  *)
(* character of a set of code ranges, repeated min..max times (rep: the    *)
(* item carries a repeat); max = NoLimit stands for "no upper limit".      *)
(* The outcome of a compilation is [ok, exc, msg, items]: exc names the    *)
(* exception raised when ok is FALSE.                                      *)
(***************************************************************************)
NoLimit == -1

\* MAXREPEAT = 4294967295, by its digits: no integer of the model is as large.
MAXREPEAT == << "4", "2", "9", "4", "9", "6", "7", "2", "9", "5" >>

DIGITS == { "0", "1", "2", "3", "4", "5", "6", "7", "8", "9" }

Ok(items) == [ok |-> TRUE, exc |-> "", msg |-> "", items |-> items]

\* source.error(msg): re.error
Err(msg) == [ok |-> FALSE, exc |-> "re.error", msg |-> msg, items |-> << >>]

Overflow ==
  [ok |-> FALSE, exc |-> "OverflowError",
   msg |-> "the repetition number is too large", items |-> << >>]

\* A sequence of digits without its leading zeros.
RECURSIVE StripZeros(_)
StripZeros(ds) ==
  IF ds # << >> /\ Head(ds) = "0" THEN StripZeros(Tail(ds)) ELSE ds

\* a < b for two sequences of digits of the same length.
RECURSIVE DigitsLess(_, _)
DigitsLess(a, b) ==
  IF a = << >> THEN FALSE
  ELSE IF Head(a) # Head(b) THEN Ord(Head(a)) < Ord(Head(b))
  ELSE DigitsLess(Tail(a), Tail(b))

\* int(ds) >= MAXREPEAT
TooLarge(ds) ==
  LET d == StripZeros(ds)
  IN  \/ Len(d) > Len(MAXREPEAT)
      \/ Len(d) = Len(MAXREPEAT) /\ ~DigitsLess(d, MAXREPEAT)

\* int(s) of a sequence of digits; the empty sequence gives 0.
RECURSIVE ToInt(_)
ToInt(ds) ==
  IF ds = << >> THEN 0
  ELSE 10 * ToInt(SubSeq(ds, 1, Len(ds) - 1)) + (Ord(ds[Len(ds)]) - 48)

\* The index of the first character at or after i that is not a digit.
RECURSIVE SkipDigits(_, _)
SkipDigits(p, i) ==
  IF i <= Len(p) /\ p[i] \in DIGITS THEN SkipDigits(p, i + 1) ELSE i

\* A character set, read from index i, just after "[".  ranges collects the
\* code ranges read so far; first is TRUE at the first member, where "]" is
\* a literal.
RECURSIVE ParseSet(_, _, _, _)
ParseSet(p, i, ranges, first) ==
  IF i > Len(p) THEN [ok |-> FALSE, msg |-> "unterminated character set"]
  ELSE IF p[i] = "]" /\ ~first THEN [ok |-> TRUE, next |-> i + 1, ranges |-> ranges]
  ELSE IF i + 2 <= Len(p) /\ p[i + 1] = "-" /\ p[i + 2] # "]"
    THEN IF Ord(p[i + 2]) < Ord(p[i])
           THEN [ok |-> FALSE, msg |-> "bad character range"]
           ELSE ParseSet(p, i + 3, ranges \cup { <<Ord(p[i]), Ord(p[i + 2])>> }, FALSE)
    ELSE ParseSet(p, i + 1, ranges \cup { <<Ord(p[i]), Ord(p[i])>> }, FALSE)

Item(ranges, min, max, rep) ==
  [ranges |-> ranges, min |-> min, max |-> max, rep |-> rep]

Literal(c) == Item({ <<Ord(c), Ord(c)>> }, 1, 1, FALSE)

\* "." matches any character except a newline; the model has no newline.
AnyChar == Item({ <<0, 1114111>> }, 1, 1, FALSE)

\* The repeat "{m}", "{m,}", "{,n}" or "{m,n}" at index i (p[i] = "{"), as
\* [wellformed, overflow, min, max, next].
Braces(p, i) ==
  LET a == SkipDigits(p, i + 1)
      lo == SubSeq(p, i + 1, a - 1)
      comma == a <= Len(p) /\ p[a] = ","
      b == IF comma THEN SkipDigits(p, a + 1) ELSE a
      hi == IF comma THEN SubSeq(p, a + 1, b - 1) ELSE lo
  IN  IF (i + 1 <= Len(p) /\ p[i + 1] = "}") \/ ~(b <= Len(p) /\ p[b] = "}")
        THEN [wellformed |-> FALSE, overflow |-> FALSE, min |-> 0, max |-> 0,
              next |-> i + 1]
        ELSE IF TooLarge(lo) \/ TooLarge(hi)
          THEN [wellformed |-> TRUE, overflow |-> TRUE, min |-> 0, max |-> 0,
                next |-> b + 1]
        ELSE [wellformed |-> TRUE, overflow |-> FALSE,
              min |-> IF lo = << >> THEN 0 ELSE ToInt(lo),
              max |-> IF hi = << >> THEN NoLimit ELSE ToInt(hi),
              next |-> b + 1]

\* The item sequence with a repeat applied to its last item.
Repeat(items, min, max) ==
  IF items = << >> THEN Err("nothing to repeat")
  ELSE IF items[Len(items)].rep THEN Err("multiple repeat")
  ELSE Ok([items EXCEPT ![Len(items)] =
             Item(items[Len(items)].ranges, min, max, TRUE)])

\* The main loop of the parser, at index i with the items parsed so far.
RECURSIVE Parse(_, _, _)
Parse(p, i, items) ==
  IF i > Len(p) THEN Ok(items)
  ELSE LET this == p[i] IN
    CASE this = "[" ->
           LET s == ParseSet(p, i + 1, { }, TRUE)
           IN  IF s.ok THEN Parse(p, s.next, Append(items, Item(s.ranges, 1, 1, FALSE)))
               ELSE Err(s.msg)
      [] this \in { "*", "+", "?" } ->
           LET r == Repeat(items, IF this = "+" THEN 1 ELSE 0,
                                  IF this = "?" THEN 1 ELSE NoLimit)
           IN  IF r.ok THEN Parse(p, i + 1, r.items) ELSE r
      [] this = "{" ->
           LET q == Braces(p, i)
           IN  IF ~q.wellformed THEN Parse(p, i + 1, Append(items, Literal(this)))
               ELSE IF q.overflow THEN Overflow
               ELSE IF q.max # NoLimit /\ q.max < q.min
                 THEN Err("min repeat greater than max repeat")
               ELSE LET r == Repeat(items, q.min, q.max)
                    IN  IF r.ok THEN Parse(p, q.next, r.items) ELSE r
      [] this = ")" -> Err("unbalanced parenthesis")
      [] this = "." -> Parse(p, i + 1, Append(items, AnyChar))
      [] OTHER -> Parse(p, i + 1, Append(items, Literal(this)))

\* re.compile(pattern): [ok, exc, msg, items].
Compile(p) == Parse(p, 1, << >>)

\* The patterns the model's fragment covers: no group, alternation, escape,
\* anchor or negated set, no lazy or possessive repeat, and no number of
\* ten digits or more below MAXREPEAT.
InFragment(p) ==
  /\ \A i \in 1..Len(p) : p[i] \notin { "(", "|", "U+005C", "^", "$" }
  /\ \A i \in 1..Len(p) :
       LET number == StripZeros(SubSeq(p, i, SkipDigits(p, i) - 1))
       IN  (i = 1 \/ p[i - 1] \notin DIGITS) /\ Len(number) >= 10
             => TooLarge(number)
  /\ \A i \in 2..Len(p) :
       p[i] \in { "?", "+" } => p[i - 1] \notin { "*", "+", "?", "}" }

(***************************************************************************)
(* Matching.  Positions count the characters before them: 0..Len(text).    *)
(***************************************************************************)
InSet(c, ranges) == \E r \in ranges : r[1] <= Ord(c) /\ Ord(c) <= r[2]

\* How many characters from position pos on are in the set, at most limit
\* (limit = NoLimit: no limit).
RECURSIVE Run(_, _, _, _)
Run(text, pos, ranges, limit) ==
  IF limit = 0 \/ pos >= Len(text) \/ ~InSet(text[pos + 1], ranges) THEN 0
  ELSE 1 + Run(text, pos + 1, ranges, IF limit = NoLimit THEN limit ELSE limit - 1)

\* The end of the match of items[k..] at pos that the backtracking matcher
\* finds first (each repeat tries its longest count first), or -1.  start
\* is where the whole match began; with must_advance an empty match there
\* is rejected.
RECURSIVE Match(_, _, _, _, _, _)
RECURSIVE TryCount(_, _, _, _, _, _, _)
Match(items, k, text, pos, start, must_advance) ==
  IF k > Len(items)
    THEN IF must_advance /\ pos = start THEN -1 ELSE pos
    ELSE TryCount(items, k, text, pos, start, must_advance,
                  Run(text, pos, items[k].ranges, items[k].max))
TryCount(items, k, text, pos, start, must_advance, count) ==
  IF count < items[k].min THEN -1
  ELSE LET r == Match(items, k + 1, text, pos + count, start, must_advance)
       IN  IF r # -1 THEN r
           ELSE TryCount(items, k, text, pos, start, must_advance, count - 1)

\* The leftmost match at or after ptr, as <<b, e>>, or << >>.  must_advance
\* applies to the first position tried only.
RECURSIVE Search(_, _, _, _)
Search(items, text, ptr, must_advance) ==
  IF ptr > Len(text) THEN << >>
  ELSE LET e == Match(items, 1, text, ptr, ptr, must_advance)
       IN  IF e # -1 THEN <<ptr, e>> ELSE Search(items, text, ptr + 1, FALSE)

\* The spans re.sub replaces, left to right: after a match <<b, e>> the scan
\* resumes at e, and must advance when the match was empty.
RECURSIVE Spans(_, _, _, _)
Spans(items, text, ptr, must_advance) ==
  LET m == Search(items, text, ptr, must_advance)
  IN  IF m = << >> THEN << >>
      ELSE <<m>> \o Spans(items, text, m[2], m[2] = m[1])

FindAll(items, text) == Spans(items, text, 0, FALSE)

(***************************************************************************)
(* The patterns.                                                           *)
(***************************************************************************)
\* Faulty variant: the pattern stops after its second group, [A-Z0-9]{8}-[A-Z0-9]{4}.
UuidPattern_two_groups ==
  << "[", "A", "-", "Z", "0", "-", "9", "]", "{", "8", "}", "-",
     "[", "A", "-", "Z", "0", "-", "9", "]", "{", "4", "}" >>

\* [A-Z0-9]{8}-[A-Z0-9]{4}-[A-Z0-9]{4}-[A-Z0-9]{4}-[A-Z0-9]{12}
UuidPattern ==
  << "[", "A", "-", "Z", "0", "-", "9", "]", "{", "8", "}", "-", "[", "A",
       "-", "Z", "0", "-", "9", "]", "{", "4", "}", "-", "[", "A", "-", "Z",
       "0", "-", "9", "]", "{", "4", "}", "-", "[", "A", "-", "Z", "0", "-",
       "9", "]", "{", "4", "}", "-", "[", "A", "-", "Z", "0", "-", "9", "]",
       "{", "1", "2", "}" >>

\* SN:[A-Z0-9]{10}
SnPattern ==
  << "S", "N", ":", "[", "A", "-", "Z", "0", "-", "9", "]", "{", "1", "0",
       "}" >>

\* [A-Z0-9]{15,20}
LongPattern ==
  << "[", "A", "-", "Z", "0", "-", "9", "]", "{", "1", "5", ",", "2", "0",
       "}" >>

DEFAULT_SERIAL_PATTERNS == << UuidPattern, SnPattern, LongPattern >>

\* Pattern lists given with --patterns.
LowerRun == << "a", "+" >>
UpperPair == << "[", "A", "-", "Z", "]", "{", "2", "}" >>
UpperOne == << "[", "A", "-", "Z", "]", "1" >>
LowerA == << "a" >>
LowerUpper == << "a", "A" >>
OnesOrNone == << "1", "*" >>
Unterminated == << "[", "A", "-", "Z" >>
NothingToRepeat == << "*", "a" >>
\* a{4294967295}
TooManyRepeats ==
  << "a", "{", "4", "2", "9", "4", "9", "6", "7", "2", "9", "5", "}" >>

PatternLists ==
  { << >>,
    DEFAULT_SERIAL_PATTERNS,
    << LowerRun, UpperPair >>,
    << LowerA, UpperOne >>,
    << LowerA, LowerUpper, UpperPair >>,
    << OnesOrNone >>,
    << Unterminated >>,
    << LowerRun, NothingToRepeat, UpperPair >>,
    << NothingToRepeat, LowerRun >>,
    << LowerRun, UpperPair, LowerA, TooManyRepeats >> }

\* The compiled patterns, each compiled once (re keeps its compiled
\* patterns in a cache).
Cache ==
  [p \in UNION { Range(l) : l \in PatternLists } |-> Compile(p)]

\* The compiled form of a pattern, as re.sub gets it.
re_compile(p) == Cache[p]

(***************************************************************************)
(* The input texts.                                                        *)
(***************************************************************************)
\* "Device SN:AB12CD34EF shipped"
DeviceText ==
  << "D", "e", "v", "i", "c", "e", " ", "S", "N", ":", "A", "B", "1", "2",
       "C", "D", "3", "4", "E", "F", " ", "s", "h", "i", "p", "p", "e", "d" >>

\* "AAAAAAAA-1111-BBBB-2222-CCCCCCCCCCCC"
UuidText ==
  << "A", "A", "A", "A", "A", "A", "A", "A", "-", "1", "1", "1", "1", "-",
       "B", "B", "B", "B", "-", "2", "2", "2", "2", "-", "C", "C", "C", "C",
       "C", "C", "C", "C", "C", "C", "C", "C" >>

TextAlphabet == { "a", "A", "1" }

\* Every text over TextAlphabet of at most n characters.
RECURSIVE TextsUpTo(_)
TextsUpTo(n) ==
  IF n = 0 THEN { << >> }
  ELSE LET shorter == TextsUpTo(n - 1)
       IN  shorter \cup { Append(t, c) : t \in shorter, c \in TextAlphabet }

(***************************************************************************)
(* The masking engine.                                                     *)
(***************************************************************************)
\* The failure sentinel None; a text holds one-character strings only.
None == << "None" >>

\* random.choice(characters) at the i-th draw of a stream.
Choice(seed, stride, i) == characters[((seed + i * stride) % Len(characters)) + 1]

\* Faulty variant: range(length + 1).
generate_random_string_one_more(length) ==
  { [i \in 1..(length + 1) |-> characters[((seed + i * stride) % 36) + 1]] :
      seed \in 0..MaxSeed, stride \in 0..MaxStride }

\* generate_random_string(length): the strings it can return.
generate_random_string(length) ==
  { [i \in 1..length |-> Choice(seed, stride, i)] :
      seed \in 0..MaxSeed, stride \in 0..MaxStride }

DebugEntry(matched_string, masked_string) ==
  [level |-> "DEBUG", event |-> "Masking",
   matched |-> matched_string, masked |-> masked_string]

\* Faulty variant: a match that begins with "SN:" is replaced by a token as long as
\* what follows the prefix.
mask_serial_number_after_prefix(matched_string) ==
  IF Len(matched_string) >= 3 /\ SubSeq(matched_string, 1, 3) = << "S", "N", ":" >>
    THEN generate_random_string(Len(matched_string) - 3)
    ELSE generate_random_string(Len(matched_string))

\* mask_serial_number(match): the strings it can return for the match.
mask_serial_number(matched_string) ==
  generate_random_string(Len(matched_string))

\* The replacements of a sequence of matched strings: one call of
\* mask_serial_number for each, independent of the others.
RECURSIVE Replacements(_)
Replacements(matches) ==
  IF matches = << >> THEN { << >> }
  ELSE { <<m>> \o rest : m \in mask_serial_number(Head(matches)),
                         rest \in Replacements(Tail(matches)) }

\* Faulty variant: the text after the last match is not copied.
RECURSIVE Build_no_tail(_, _, _, _, _)
Build_no_tail(string, spans, repl, k, i) ==
  IF k > Len(spans) THEN << >>
  ELSE SubSeq(string, i + 1, spans[k][1]) \o repl[k]
         \o Build_no_tail(string, spans, repl, k + 1, spans[k][2])

\* Faulty variant: the text between the matches is not copied.
RECURSIVE Build_no_gap(_, _, _, _, _)
Build_no_gap(string, spans, repl, k, i) ==
  IF k > Len(spans) THEN SubSeq(string, i + 1, Len(string))
  ELSE repl[k] \o Build_no_gap(string, spans, repl, k + 1, spans[k][2])

\* The text re.sub builds: the text between the matches is copied, each
\* match gives way to its replacement, and the rest of the text follows.
RECURSIVE Build(_, _, _, _, _)
Build(string, spans, repl, k, i) ==
  IF k > Len(spans) THEN SubSeq(string, i + 1, Len(string))
  ELSE SubSeq(string, i + 1, spans[k][1]) \o repl[k]
         \o Build(string, spans, repl, k + 1, spans[k][2])

Matched(string, spans) ==
  [k \in 1..Len(spans) |-> SubSeq(string, spans[k][1] + 1, spans[k][2])]

\* re.sub(pattern, mask_serial_number, string) for a compiled pattern: the
\* outcomes [string, spans, matched, masked] it can have.
re_sub(items, string) ==
  LET spans == FindAll(items, string)
      matched == Matched(string, spans)
  IN  { [string |-> Build(string, spans, repl, 1, 0), spans |-> spans,
         matched |-> matched, masked |-> repl] :
        repl \in Replacements(matched) }

(***************************************************************************)
(* Encodings.                                                              *)
(***************************************************************************)
Encodings == { "ascii", "utf-8", "ISO-8859-1" }

\* chardet.detect(raw_data)['encoding']: the labels the detector can give.
\* It gives None for no data and "ascii" for bytes below 128; what it makes
\* of other data is a guess.
Detect(raw) ==
  IF raw = << >> THEN { None }
  ELSE IF \A k \in 1..Len(raw) : raw[k] < 128 THEN { << "ascii" >> }
  ELSE { << e >> : e \in Encodings \ { "ascii" } } \cup { None }

\* raw_data.decode(encoding): [ok, text]; ~ok stands for UnicodeDecodeError.
RECURSIVE Decode(_, _)
Decode(raw, enc) ==
  IF raw = << >> THEN [ok |-> TRUE, text |-> << >>]
  ELSE LET b == Head(raw)
           two == enc = "utf-8" /\ b = 195 /\ Len(raw) >= 2 /\ raw[2] = 169
           one == b < 128 \/ enc = "ISO-8859-1"
           rest == Decode(SubSeq(raw, IF two THEN 3 ELSE 2, Len(raw)), enc)
       IN  IF (two \/ one) /\ rest.ok
             THEN [ok |-> TRUE,
                   text |-> << IF two THEN Chr(233) ELSE Chr(b) >> \o rest.text]
             ELSE [ok |-> FALSE, text |-> << >>]

\* text.encode(encoding), as the text file object does on write:
\* [ok, bytes]; ~ok stands for UnicodeEncodeError.
RECURSIVE Encode(_, _)
Encode(str, enc) ==
  IF str = << >> THEN [ok |-> TRUE, bytes |-> << >>]
  ELSE LET n == Ord(Head(str))
           rest == Encode(Tail(str), enc)
           this == CASE n < 128 -> << n >>
                     [] n >= 128 /\ enc = "ISO-8859-1" -> << n >>
                     [] n = 233 /\ enc = "utf-8" -> << 195, 169 >>
                     [] OTHER -> << >>
       IN  IF this # << >> /\ rest.ok
             THEN [ok |-> TRUE, bytes |-> this \o rest.bytes]
             ELSE [ok |-> FALSE, bytes |-> << >>]

\* The bytes of an ASCII text.
Bytes(str) == [k \in 1..Len(str) |-> Ord(str[k])]

(***************************************************************************)
(* process_file.                                                           *)
(***************************************************************************)
VARIABLES
  files,            \* the file system: path -> bytes, or Absent
  before,           \* the file system when process_file was called
  input_file, output_file, serial_patterns,   \* the arguments
  pc,               \* where process_file is
  handles,          \* the files it holds open: "r" the input, "w" the output
  raw_data, encoding, text,
  masked_text,      \* masked_text of mask_serial_numbers_in_text
  idx,              \* which pattern its loop is at
  returned,         \* masked_text of process_file: what the call returned
  result,           \* "True" or "False" as process_file returned it, or the
                    \* exception it raised; "" before
  log,              \* the log entries written
  passes            \* the passes made: [pattern, input, spans, output]

vars ==
  << files, before, input_file, output_file, serial_patterns, pc, handles,
     raw_data, encoding, text, masked_text, idx, returned, result, log, passes >>

Paths == { "in.txt", "out.txt", "missing.txt" }
Absent == << -1 >>
OldContent == Bytes(<< "o", "l", "d" >>)

\* What in.txt can hold with the pattern list: a short text, or bytes above
\* 127, with any list; the two long texts with the default list.
Contents(patterns) ==
  { Bytes(t) : t \in TextsUpTo(MaxLen) } \cup { << 97, 233 >>, << 97, 195, 169 >> }
    \cup (IF patterns = DEFAULT_SERIAL_PATTERNS
            THEN { Bytes(DeviceText), Bytes(UuidText) } ELSE { })

Init ==
  /\ serial_patterns \in PatternLists
  /\ input_file \in { "in.txt", "missing.txt" }
  /\ output_file \in { "in.txt", "out.txt" }
  /\ \E c \in Contents(serial_patterns),
        o \in IF output_file = "out.txt" THEN { Absent, OldContent } ELSE { Absent } :
       files = [p \in Paths |->
                  CASE p = "in.txt" -> c [] p = "out.txt" -> o [] OTHER -> Absent]
  /\ before = files
  /\ \A k \in 1..Len(serial_patterns) : InFragment(serial_patterns[k])
  /\ pc = "open_in"
  /\ handles = { }
  /\ raw_data = << >>
  /\ encoding = None
  /\ text = << >>
  /\ masked_text = << >>
  /\ idx = 0
  /\ returned = None
  /\ result = ""
  /\ log = << >>
  /\ passes = << >>

Error(event) == [level |-> "ERROR", event |-> event]

\* return False, leaving the with block if inside one.
ReturnFalse(event) ==
  /\ log' = Append(log, Error(event))
  /\ result' = "False"
  /\ handles' = { }
  /\ pc' = "done"

\* Lines 84-85: open(input_file, 'rb') and f.read().
OpenInput ==
  /\ pc = "open_in"
  /\ files[input_file] # Absent
  /\ raw_data' = files[input_file]
  /\ handles' = { "r" }
  /\ pc' = "detect"
  /\ UNCHANGED << files, before, input_file, output_file, serial_patterns,
                  encoding, text, masked_text, idx, returned, result, log, passes >>

\* Lines 98-100: FileNotFoundError.
InputNotFound ==
  /\ pc = "open_in"
  /\ files[input_file] = Absent
  /\ ReturnFalse("Input file not found")
  /\ UNCHANGED << files, before, input_file, output_file, serial_patterns,
                  raw_data, encoding, text, masked_text, idx, returned, passes >>

\* Lines 101-103: any other exception of open or read.
ReadError ==
  /\ pc = "open_in"
  /\ files[input_file] # Absent
  /\ ReturnFalse("Error reading input file")
  /\ UNCHANGED << files, before, input_file, output_file, serial_patterns,
                  raw_data, encoding, text, masked_text, idx, returned, passes >>

\* Lines 86-87: an encoding is detected.
DetectEncoding ==
  /\ pc = "detect"
  /\ \E e \in Detect(raw_data) \ { None } : encoding' = e
  /\ pc' = "decode"
  /\ UNCHANGED << files, before, input_file, output_file, serial_patterns,
                  handles, raw_data, text, masked_text, idx, returned, result,
                  log, passes >>

\* Lines 88-90: no encoding is detected.
EncodingUndetected ==
  /\ pc = "detect"
  /\ None \in Detect(raw_data)
  /\ ReturnFalse("Failed to detect encoding")
  /\ UNCHANGED << files, before, input_file, output_file, serial_patterns,
                  raw_data, encoding, text, masked_text, idx, returned, passes >>

\* Lines 92-93, the end of the with block, and the call of line 105, with
\* line 60.
DecodeText ==
  /\ pc = "decode"
  /\ Decode(raw_data, encoding[1]).ok
  /\ text' = Decode(raw_data, encoding[1]).text
  /\ handles' = { }
  /\ masked_text' = text'
  /\ idx' = 1
  /\ pc' = "mask"
  /\ UNCHANGED << files, before, input_file, output_file, serial_patterns,
                  raw_data, encoding, returned, result, log, passes >>

\* Lines 94-96: UnicodeDecodeError.
DecodeError ==
  /\ pc = "decode"
  /\ ~Decode(raw_data, encoding[1]).ok
  /\ ReturnFalse("Error decoding file")
  /\ UNCHANGED << files, before, input_file, output_file, serial_patterns,
                  raw_data, encoding, text, masked_text, idx, returned, passes >>

\* Faulty variant: re.sub(pattern, mask_serial_number, text), each pass scanning the
\* text the function was given.
MaskPass_scans_text ==
  /\ pc = "mask"
  /\ idx <= Len(serial_patterns)
  /\ re_compile(serial_patterns[idx]).ok
  /\ \E r \in re_sub(re_compile(serial_patterns[idx]).items, text) :
       /\ masked_text' = r.string
       /\ log' = log \o [k \in 1..Len(r.spans) |->
                           DebugEntry(r.matched[k], r.masked[k])]
       /\ passes' = Append(passes, [pattern |-> idx, input |-> text,
                                    spans |-> r.spans, output |-> r.string])
  /\ idx' = idx + 1
  /\ UNCHANGED << files, before, input_file, output_file, serial_patterns, pc,
                  handles, raw_data, encoding, text, returned, result >>

\* Lines 61-63: one turn of the loop, for a pattern that compiles.
MaskPass ==
  /\ pc = "mask"
  /\ idx <= Len(serial_patterns)
  /\ re_compile(serial_patterns[idx]).ok
  /\ \E r \in re_sub(re_compile(serial_patterns[idx]).items, masked_text) :
       /\ masked_text' = r.string
       /\ log' = log \o [k \in 1..Len(r.spans) |->
                           DebugEntry(r.matched[k], r.masked[k])]
       /\ passes' = Append(passes, [pattern |-> idx, input |-> masked_text,
                                    spans |-> r.spans, output |-> r.string])
  /\ idx' = idx + 1
  /\ UNCHANGED << files, before, input_file, output_file, serial_patterns, pc,
                  handles, raw_data, encoding, text, returned, result >>

\* Lines 64-66: re.error; mask_serial_numbers_in_text returns None.
InvalidPattern ==
  /\ pc = "mask"
  /\ idx <= Len(serial_patterns)
  /\ re_compile(serial_patterns[idx]).exc = "re.error"
  /\ log' = Append(log, Error("Invalid regular expression"))
  /\ returned' = None
  /\ pc' = "masked"
  /\ UNCHANGED << files, before, input_file, output_file, serial_patterns,
                  handles, raw_data, encoding, text, masked_text, idx, result,
                  passes >>

\* Line 63 raises an exception that line 64 does not catch: it leaves
\* mask_serial_numbers_in_text and, from line 105, process_file, which
\* returns nothing.
UncaughtException ==
  /\ pc = "mask"
  /\ idx <= Len(serial_patterns)
  /\ re_compile(serial_patterns[idx]).exc \notin { "", "re.error" }
  /\ result' = re_compile(serial_patterns[idx]).exc
  /\ pc' = "done"
  /\ UNCHANGED << files, before, input_file, output_file, serial_patterns,
                  handles, raw_data, encoding, text, masked_text, idx, returned,
                  log, passes >>

\* Line 67: mask_serial_numbers_in_text returns masked_text.
MaskReturn ==
  /\ pc = "mask"
  /\ idx > Len(serial_patterns)
  /\ returned' = masked_text
  /\ pc' = "masked"
  /\ UNCHANGED << files, before, input_file, output_file, serial_patterns,
                  handles, raw_data, encoding, text, masked_text, idx, result,
                  log, passes >>

\* Lines 107-108.
MaskingFailed ==
  /\ pc = "masked"
  /\ returned = None
  /\ result' = "False"
  /\ pc' = "done"
  /\ UNCHANGED << files, before, input_file, output_file, serial_patterns,
                  handles, raw_data, encoding, text, masked_text, idx, returned,
                  log, passes >>

\* Line 111: open(output_file, 'w', encoding=encoding) creates the file or
\* truncates it.
OpenOutput ==
  /\ pc = "masked"
  /\ returned # None
  /\ files' = [files EXCEPT ![output_file] = << >>]
  /\ handles' = { "w" }
  /\ pc' = "write"
  /\ UNCHANGED << before, input_file, output_file, serial_patterns, raw_data,
                  encoding, text, masked_text, idx, returned, result, log, passes >>

\* Lines 115-117, for an exception of open.
OpenOutputError ==
  /\ pc = "masked"
  /\ returned # None
  /\ ReturnFalse("Error writing to output file")
  /\ UNCHANGED << files, before, input_file, output_file, serial_patterns,
                  raw_data, encoding, text, masked_text, idx, returned, passes >>

\* Lines 112-114: f.write(masked_text) and the end of the with block.
WriteOutput ==
  /\ pc = "write"
  /\ Encode(returned, encoding[1]).ok
  /\ files' = [files EXCEPT ![output_file] = Encode(returned, encoding[1]).bytes]
  /\ handles' = { }
  /\ log' = Append(log, [level |-> "INFO", event |-> "Successfully processed"])
  /\ result' = "True"
  /\ pc' = "done"
  /\ UNCHANGED << before, input_file, output_file, serial_patterns, raw_data,
                  encoding, text, masked_text, idx, returned, passes >>

\* Lines 115-117, for an exception of write or of closing the file: some
\* first bytes of the data, short of all of them and at most MaxPartial,
\* have reached the file.
WriteError ==
  /\ pc = "write"
  /\ LET data == Encode(returned, encoding[1])
         most == IF data.ok /\ Len(data.bytes) > 0 THEN Len(data.bytes) - 1 ELSE 0
     IN  \E n \in 0..(IF most < MaxPartial THEN most ELSE MaxPartial) :
           files' = [files EXCEPT ![output_file] = SubSeq(data.bytes, 1, n)]
  /\ ReturnFalse("Error writing to output file")
  /\ UNCHANGED << before, input_file, output_file, serial_patterns, raw_data,
                  encoding, text, masked_text, idx, returned, passes >>

Next ==
  \/ OpenInput
  \/ InputNotFound
  \/ ReadError
  \/ DetectEncoding
  \/ EncodingUndetected
  \/ DecodeText
  \/ DecodeError
  \/ MaskPass
  \/ InvalidPattern
  \/ UncaughtException
  \/ MaskReturn
  \/ MaskingFailed
  \/ OpenOutput
  \/ OpenOutputError
  \/ WriteOutput
  \/ WriteError

Spec == Init /\ [][Next]_vars

(***************************************************************************)
(* The properties.                                                         *)
(***************************************************************************)
\* The 36 characters A-Z and 0-9, by their code points.
UpperDigits ==
  { c \in Range(Printable) : Ord(c) \in (48..57) \cup (65..90) }

\* The DEBUG entries of the log: one for each substitution.
Substitutions == { k \in 1..Len(log) : log[k].level = "DEBUG" }

\* mask_serial_numbers_in_text has returned a text.
Masked == pc \in { "masked", "write", "done" } /\ returned # None

\* Position j (1..Len) of a text lies inside span sp.
Inside(j, sp) == sp[1] < j /\ j <= sp[2]

\* C1: length preservation.  Every replacement is as long as the match it
\* replaces, a zero-length match included, so the text keeps its length
\* through every pass and to the end of mask_serial_numbers_in_text.
C1_LengthPreserved ==
  /\ \A k \in Substitutions : Len(log[k].masked) = Len(log[k].matched)
  /\ \A k \in 1..Len(passes) : Len(passes[k].output) = Len(passes[k].input)
  /\ pc = "mask" => Len(masked_text) = Len(text)
  /\ Masked => Len(returned) = Len(text)

\* C1 witness: a run that replaced a match of some length and an empty one.
C1_Witness ==
  /\ pc = "done" /\ result = "True"
  /\ \E k \in Substitutions : Len(log[k].matched) > 0
  /\ \E k \in Substitutions : log[k].matched = << >>

\* C2: alphabet conformance.  Every character of every replacement is one
\* of A-Z, 0-9: no character of the matched text that is outside that
\* alphabet is left inside a replaced span.
C2_AlphabetConformance ==
  /\ \A k \in Substitutions : Range(log[k].masked) \subseteq UpperDigits
  /\ \A k \in 1..Len(passes) : \A n \in 1..Len(passes[k].spans) :
       \A j \in 1..Len(passes[k].output) :
         Inside(j, passes[k].spans[n]) => passes[k].output[j] \in UpperDigits

\* C2 witness: a replaced match that held a character outside A-Z, 0-9.
C2_Witness ==
  /\ pc = "done" /\ result = "True"
  /\ \E k \in Substitutions : ~(Range(log[k].matched) \subseteq UpperDigits)

HasInvalid ==
  \E k \in 1..Len(serial_patterns) : ~re_compile(serial_patterns[k]).ok

FirstInvalid ==
  CHOOSE k \in 1..Len(serial_patterns) :
    /\ ~re_compile(serial_patterns[k]).ok
    /\ \A j \in 1..(k - 1) : re_compile(serial_patterns[j]).ok

\* C3: an invalid pattern aborts cleanly.  With a pattern that does not
\* compile anywhere in the list, mask_serial_numbers_in_text returns None and
\* never a text, no pattern after the invalid one is applied, and
\* process_file returns False without opening or writing the output path.
C3_InvalidPatternAborts ==
  HasInvalid =>
    /\ returned = None
    /\ \A k \in 1..Len(passes) : passes[k].pattern < FirstInvalid
    /\ pc # "write" /\ "w" \notin handles /\ files = before
    /\ pc = "done" => result = "False"

\* What holds of C3: the same, for a list whose first pattern that does not
\* compile raises re.error, the exception line 64 catches.
C3_ReErrorAborts ==
  (HasInvalid /\ re_compile(serial_patterns[FirstInvalid]).exc = "re.error") =>
    /\ returned = None
    /\ \A k \in 1..Len(passes) : passes[k].pattern < FirstInvalid
    /\ pc # "write" /\ "w" \notin handles /\ files = before
    /\ pc = "done" => result = "False"

\* A run of C3_ReErrorAborts: the invalid pattern came after a valid one that
\* had made a substitution and before another pattern, and process_file has
\* returned.
C3_ReErrorRun ==
  /\ HasInvalid /\ pc = "done"
  /\ 1 < FirstInvalid /\ FirstInvalid < Len(serial_patterns)
  /\ \E k \in 1..Len(passes) : passes[k].spans # << >>
  /\ \E k \in 1..Len(log) : log[k].event = "Invalid regular expression"

\* C4: no partial success.  When process_file has returned, either the whole
\* masked text is in the output file and it returned True, or it returned
\* False and the file system is as it was before the call.
C4_NoPartialSuccess ==
  pc = "done" =>
    \/ /\ result = "True"
       /\ files = [before EXCEPT ![output_file] = Encode(returned, encoding[1]).bytes]
    \/ /\ result = "False"
       /\ files = before

\* C5: sequential rescan.  The k-th pass applies the k-th pattern to the
\* text the pass before it produced (the first to the input text), and
\* replaces exactly the leftmost non-overlapping matches found there, each
\* by a token.
C5_SequentialRescan ==
  \A k \in 1..Len(passes) :
    /\ passes[k].pattern = k
    /\ passes[k].input = IF k = 1 THEN text ELSE passes[k - 1].output
    /\ passes[k].spans = FindAll(re_compile(serial_patterns[k]).items, passes[k].input)
    /\ \A n \in 1..Len(passes[k].spans) :
         \A j \in 1..Len(passes[k].output) :
           Inside(j, passes[k].spans[n]) => passes[k].output[j] \in UpperDigits

\* C5 witness: a later pass replaced a span that overlaps a token of an
\* earlier pass, and a match that a later pattern has in the input text
\* was gone when its pass came.
C5_Witness ==
  /\ pc = "done" /\ result = "True"
  /\ \E k \in 2..Len(passes) : \E h \in 1..(k - 1) :
       \E a \in 1..Len(passes[k].spans), b \in 1..Len(passes[h].spans) :
         \E j \in 1..Len(text) :
           Inside(j, passes[k].spans[a]) /\ Inside(j, passes[h].spans[b])
  /\ \E k \in 2..Len(passes) :
       LET orig == FindAll(re_compile(serial_patterns[k]).items, text)
       IN  \E a \in 1..Len(orig) :
             /\ orig[a][1] < orig[a][2]
             /\ \A b \in 1..Len(passes[k].spans) : passes[k].spans[b] # orig[a]

NoMatchAnywhere ==
  \A k \in 1..Len(serial_patterns) :
    /\ re_compile(serial_patterns[k]).ok
    /\ FindAll(re_compile(serial_patterns[k]).items, text) = << >>

\* C6: pass-through of untouched content.  When no pattern of the list has
\* a match in the text (as with the empty list), the text returned is the
\* input text.
C6_PassThrough ==
  (Masked /\ NoMatchAnywhere) => returned = text

\* C6 witness: a text went through a list of patterns none of which matched.
C6_Witness ==
  /\ pc = "done" /\ result = "True"
  /\ NoMatchAnywhere
  /\ serial_patterns # << >>
  /\ Len(text) = MaxLen

\* s is "Device ", n characters of A-Z, 0-9, and " shipped".
DeviceShape(s, n) ==
  /\ Len(s) = 7 + n + 8
  /\ SubSeq(s, 1, 7) = SubSeq(DeviceText, 1, 7)
  /\ SubSeq(s, 8 + n, Len(s)) = SubSeq(DeviceText, 21, 28)
  /\ \A j \in 8..(7 + n) : s[j] \in UpperDigits

DeviceScenario ==
  Masked /\ text = DeviceText /\ serial_patterns = DEFAULT_SERIAL_PATTERNS

\* C7, as stated: "Device SN:AB12CD34EF shipped" under the default patterns
\* becomes "Device ", a token of exactly 10 characters, " shipped".
C7_TokenOfTen ==
  DeviceScenario => DeviceShape(returned, 10)

\* C7, amended: the token has exactly 13 characters, the length of the whole
\* match "SN:AB12CD34EF".
C7_TokenOfThirteen ==
  DeviceScenario => DeviceShape(returned, 13)

\* C7 witness: the scenario ran to the end.
C7_Witness ==
  DeviceScenario /\ pc = "done" /\ result = "True"

UuidScenario ==
  Masked /\ text = UuidText /\ serial_patterns = DEFAULT_SERIAL_PATTERNS

\* C8: the UUID-like text under the default patterns becomes, after all
\* three passes, 36 characters of A-Z, 0-9, with no dash.
C8_UuidMasked ==
  UuidScenario =>
    /\ Len(returned) = 36
    /\ Range(returned) \subseteq UpperDigits
    /\ "-" \notin Range(returned)

\* C8 witness: the scenario ran to the end, the third pattern having
\* replaced again what the first had put.
C8_Witness ==
  /\ UuidScenario /\ pc = "done" /\ result = "True"
  /\ Len(passes) = 3
  /\ passes[1].spans # << >> /\ passes[3].spans # << >>

\* C9: the output is touched only after every earlier step succeeded.  The
\* output is opened, and the file system changed, only with the input read
\* whole and closed, an encoding detected (the detector's own, no fallback),
\* the bytes decoded and the masking done; every earlier failure makes
\* process_file return False with the file system as it was; and the text
\* masked is the whole content of the input, also with output = input.
C9_OutputAfterSuccess ==
  /\ (pc = "write" \/ "w" \in handles \/ files # before) =>
       /\ "r" \notin handles
       /\ raw_data = before[input_file]
       /\ encoding # None /\ encoding \in Detect(raw_data)
       /\ Decode(raw_data, encoding[1]).ok
       /\ text = Decode(raw_data, encoding[1]).text
       /\ idx > Len(serial_patterns)
       /\ returned # None /\ returned = masked_text
  /\ encoding # None => encoding \in Detect(before[input_file])
  /\ (pc = "done" /\ returned = None) => (result = "False" /\ files = before)
  /\ (pc = "done" /\ result = "True") =>
       /\ before[input_file] # Absent
       /\ encoding # None
       /\ Decode(before[input_file], encoding[1]).ok
       /\ text = Decode(before[input_file], encoding[1]).text
       /\ ~HasInvalid

\* What holds of C9: the same, but that a failure of the masking ends
\* process_file either by return False or by an exception.
C9_OutputOrder ==
  /\ (pc = "write" \/ "w" \in handles \/ files # before) =>
       /\ "r" \notin handles
       /\ raw_data = before[input_file]
       /\ encoding # None /\ encoding \in Detect(raw_data)
       /\ Decode(raw_data, encoding[1]).ok
       /\ text = Decode(raw_data, encoding[1]).text
       /\ idx > Len(serial_patterns)
       /\ returned # None /\ returned = masked_text
  /\ encoding # None => encoding \in Detect(before[input_file])
  /\ (pc = "done" /\ returned = None) => (result # "True" /\ files = before)
  /\ (pc = "done" /\ returned = None /\ result # "False") =>
       (HasInvalid /\ re_compile(serial_patterns[FirstInvalid]).exc # "re.error")
  /\ (pc = "done" /\ result = "True") =>
       /\ before[input_file] # Absent
       /\ encoding # None
       /\ Decode(before[input_file], encoding[1]).ok
       /\ text = Decode(before[input_file], encoding[1]).text
       /\ ~HasInvalid

\* A run of C9_OutputOrder: the input was overwritten in place with its
\* masked content.
C9_InPlaceRun ==
  /\ pc = "done" /\ result = "True"
  /\ output_file = input_file
  /\ files[input_file] # before[input_file]
  /\ Len(files[input_file]) = Len(before[input_file])

\* Position j lies inside a span matched in some pass.
Touched(j) ==
  \E k \in 1..Len(passes) : \E n \in 1..Len(passes[k].spans) :
    Inside(j, passes[k].spans[n])

\* C10: frame of a masking pass.  The text returned has the length of the
\* input and differs from it only at positions inside a span matched in
\* some pass; and so for each single pass.
C10_Frame ==
  /\ Masked =>
       /\ Len(returned) = Len(text)
       /\ \A j \in 1..Len(text) : ~Touched(j) => returned[j] = text[j]
  /\ \A k \in 1..Len(passes) :
       /\ Len(passes[k].output) = Len(passes[k].input)
       /\ \A j \in 1..Len(passes[k].input) :
            (\A n \in 1..Len(passes[k].spans) : ~Inside(j, passes[k].spans[n]))
              => passes[k].output[j] = passes[k].input[j]

\* C10 witness: a text returned with a replaced span between two untouched
\* positions.
C10_Witness ==
  /\ pc = "done" /\ result = "True"
  /\ returned # text
  /\ \E i, j, l \in 1..Len(text) :
       i < j /\ j < l /\ ~Touched(i) /\ Touched(j) /\ ~Touched(l)

====
